---- MODULE Spec2Model ----
(***************************************************************************)
(* Model of mibuild/xilinx_ise.py: the UCF constraint formatter, the       *)
(* project file emitter, the ISE toolchain driver and                      *)
(* XilinxISEPlatform.build.                                                *)
(*                                                                         *)
(* Text is modelled as a flat sequence of string tokens, built by the same *)
(* concatenations the Python code performs; "\n" is a token of its own.    *)
(* A file name, a pin name or a constraint fragment is one token.          *)
(* A directory name of the ISE installation root is a sequence of          *)
(* one-character strings, so that Python's string order (used by max) and  *)
(* Decimal's parse can both be computed on it.                             *)
(***************************************************************************)
EXTENDS Integers, Sequences, FiniteSets, TLC

(***************************************************************************)
(* Bounds of the model.                                                    *)
(***************************************************************************)
MaxPins == 2        \* longest pin sequence of a signal constraint
MaxOthers == 2      \* longest constraint list of a signal constraint
MaxSources == 2     \* longest source list of the platform
MaxEntries == 3     \* most entries of the ISE installation root

(***************************************************************************)
(* Generic sequence helpers.                                               *)
(***************************************************************************)
SeqsUpTo(S, n) == UNION {[1..k -> S] : k \in 0..n}

RECURSIVE Flatten(_)
Flatten(ss) == IF ss = <<>> THEN <<>> ELSE Head(ss) \o Flatten(Tail(ss))

\* Python's sep.join(parts) on token sequences
RECURSIVE join(_, _)
join(sep, parts) ==
  IF parts = <<>> THEN <<>>
  ELSE IF Len(parts) = 1 THEN <<parts[1]>>
  ELSE <<parts[1], sep>> \o join(sep, Tail(parts))

\* the lines of a text: the token runs that end with a "\n" token, plus a
\* last unterminated run when there is one
RECURSIVE SplitLinesAcc(_, _)
SplitLinesAcc(text, cur) ==
  IF text = <<>> THEN (IF cur = <<>> THEN <<>> ELSE <<cur>>)
  ELSE IF Head(text) = "\n" THEN <<cur>> \o SplitLinesAcc(Tail(text), <<>>)
  ELSE SplitLinesAcc(Tail(text), Append(cur, Head(text)))

SplitLines(text) == SplitLinesAcc(text, <<>>)

(***************************************************************************)
(* Constraints (mibuild.generic_platform): Pins, IOStandard, Drive, Misc,  *)
(* and PlatformInfo as a constraint class that _format_constraint does not *)
(* know.                                                                   *)
(***************************************************************************)
Constraint(k, ids, n, s, m) ==
  [kind |-> k, identifiers |-> ids, name |-> n, strength |-> s, misc |-> m]

Pins(ids) == Constraint("Pins", ids, "", 0, "")
IOStandard(n) == Constraint("IOStandard", <<>>, n, 0, "")
Drive(s) == Constraint("Drive", <<>>, "", s, "")
Misc(m) == Constraint("Misc", <<>>, "", 0, m)
PlatformInfo(i) == Constraint("PlatformInfo", <<>>, "", 0, i)

\* Python's None; a returned string s is <<s>>
None == <<>>

_format_constraint(c) ==
  CASE c.kind = "Pins" -> <<"LOC=" \o c.identifiers[1]>>
    [] c.kind = "IOStandard" -> <<"IOSTANDARD=" \o c.name>>
    [] c.kind = "Drive" -> <<"DRIVE=" \o ToString(c.strength)>>
    [] c.kind = "Misc" -> <<c.misc>>
    [] OTHER -> None

\* fmt_c_loop without the test of line 53: an empty fragment stands for None
RECURSIVE fmt_c_loop_keeps_none(_)
fmt_c_loop_keeps_none(cs) ==
  IF cs = <<>> THEN <<>>
  ELSE LET fc == _format_constraint(Head(cs))
       IN (IF fc # None THEN <<fc[1]>> ELSE <<"">>) \o fmt_c_loop_keeps_none(Tail(cs))

\* the loop of _format_ucf: fmt_c after the constraints cs were visited
RECURSIVE fmt_c_loop(_)
fmt_c_loop(cs) ==
  IF cs = <<>> THEN <<>>
  ELSE LET fc == _format_constraint(Head(cs))
       IN (IF fc # None THEN <<fc[1]>> ELSE <<>>) \o fmt_c_loop(Tail(cs))

\* resname is <<name, number, subsignal>>, subsignal "" standing for None
fmt_r(resname) ==
  resname[1] \o ":" \o ToString(resname[2])
    \o (IF resname[3] # "" THEN "." \o resname[3] ELSE "")

_format_ucf(signame, pin, others, resname) ==
  <<"NET \"", signame, "\" ">>
    \o join(" | ", fmt_c_loop(<<Pins(<<pin>>)>> \o others))
    \o <<"; # ", fmt_r(resname), "\n">>

\* sc_lines with len(pins) > 0 for the test of line 63: a scalar gets (0)
sc_lines_always_indexed(sc) ==
  Flatten([i \in 1..Len(sc.pins) |->
    _format_ucf(sc.sig \o "(" \o ToString(i - 1) \o ")",
                sc.pins[i], sc.others, sc.resname)])

\* one entry of named_sc is [sig, pins, others, resname]
\* the body of the loop of _build_ucf: the lines of one entry (pins is not
\* empty: see _build_ucf_raises)
sc_lines(sc) ==
  IF Len(sc.pins) > 1
  THEN Flatten([i \in 1..Len(sc.pins) |->
         _format_ucf(sc.sig \o "(" \o ToString(i - 1) \o ")",
                     sc.pins[i], sc.others, sc.resname)])
  ELSE _format_ucf(sc.sig, sc.pins[1], sc.others, sc.resname)

\* whether _build_ucf raises IndexError (pins[0] of an empty pin sequence)
_build_ucf_raises(named_sc) ==
  \E i \in 1..Len(named_sc) : Len(named_sc[i].pins) = 0

_build_ucf(named_sc, named_pc) ==
  Flatten([i \in 1..Len(named_sc) |-> sc_lines(named_sc[i])])
    \o (IF named_pc # <<>> THEN <<"\n">> \o join("\n\n", named_pc) ELSE <<>>)

(***************************************************************************)
(* _build_files: the three files it writes, as (name, contents) pairs in   *)
(* the order of the writes.  sources is a sequence of <<filename,          *)
(* language>>.                                                             *)
(***************************************************************************)
prj_line(s) == <<s[2], " work ", s[1], "\n">>

prj_contents(sources) == Flatten([i \in 1..Len(sources) |-> prj_line(sources[i])])

xst_contents(build_name, device) ==
  <<"run", "\n",
    "-ifn ", build_name \o ".prj", "\n",
    "-top top", "\n",
    "-ifmt MIXED", "\n",
    "-opt_mode SPEED", "\n",
    "-reduce_control_sets auto", "\n",
    "-register_balancing yes", "\n",
    "-ofn ", build_name \o ".ngc", "\n",
    "-p ", device>>

_build_files(device, sources, named_sc, named_pc, build_name) ==
  << <<build_name \o ".ucf", _build_ucf(named_sc, named_pc)>>,
     <<build_name \o ".prj", prj_contents(sources)>>,
     <<build_name \o ".xst", xst_contents(build_name, device)>> >>

(***************************************************************************)
(* Directory names of the ISE installation root, as sequences of           *)
(* one-character strings.                                                  *)
(***************************************************************************)
Digits == <<"0", "1", "2", "3", "4", "5", "6", "7", "8", "9">>
Letters == <<"a", "b", "c", "d", "e", "f", "g", "h", "i", "j", "k", "l", "m",
             "n", "o", "p", "q", "r", "s", "t", "u", "v", "w", "x", "y", "z">>

IsDigit(c) == \E i \in 1..Len(Digits) : Digits[i] = c
DigitVal(c) == (CHOOSE i \in 1..Len(Digits) : Digits[i] = c) - 1

\* the code point of a character of a name: ".", a digit or a lower-case letter
Ord(c) ==
  IF c = "." THEN 46
  ELSE IF IsDigit(c) THEN 48 + DigitVal(c)
  ELSE 96 + (CHOOSE i \in 1..Len(Letters) : Letters[i] = c)

\* Python's a < b on strings: by code point, a proper prefix being smaller
RECURSIVE StrLess(_, _)
StrLess(a, b) ==
  IF b = <<>> THEN FALSE
  ELSE IF a = <<>> THEN TRUE
  ELSE IF Head(a) # Head(b) THEN Ord(Head(a)) < Ord(Head(b))
  ELSE StrLess(Tail(a), Tail(b))

\* the name as one string token
RECURSIVE Str(_)
Str(v) == IF v = <<>> THEN "" ELSE Head(v) \o Str(Tail(v))

\* Decimal(v) does not raise.  On names made of ".", digits and lower-case
\* letters, leaving aside the exponent and the special values (inf, nan): the
\* names with digits, at most one "." and nothing else.
DecimalParses(v) ==
  /\ \A i \in 1..Len(v) : IsDigit(v[i]) \/ v[i] = "."
  /\ \E i \in 1..Len(v) : IsDigit(v[i])
  /\ Cardinality({i \in 1..Len(v) : v[i] = "."}) <= 1

\* dir is the content of the directory path: a set of [name, isdir]
_is_valid_version(dir, v) ==
  IF DecimalParses(v)
  THEN \E e \in dir : e.name = v /\ e.isdir
  ELSE FALSE

\* Python's max(vers) on a non-empty collection of distinct strings
max(vs) == CHOOSE v \in vs : \A w \in vs : w = v \/ StrLess(w, v)

\* lines 103-104: the list comprehension and what max is applied to
valid_versions(dir) == {e.name : e \in {x \in dir : _is_valid_version(dir, x.name)}}

xilinx_settings_file(ise_path, tools_version, P) ==
  ise_path \o "/" \o Str(tools_version) \o "/ISE_DS/settings"
    \o ToString(P * 8) \o ".sh"

\* source_in_effect without the cygwin test of line 99
source_in_effect_win32_only(platform, source) ==
  IF platform = "win32" THEN FALSE ELSE source

\* line 99-100: source after the platform test
source_in_effect(platform, source) ==
  IF platform = "win32" \/ platform = "cygwin" THEN FALSE ELSE source

\* script_head without set -e
script_head_no_errexit == <<"# Autogenerated by mibuild", "\n">>

\* line 101: the head of the build script
script_head == <<"# Autogenerated by mibuild", "\n", "set -e", "\n">>

\* lines 109-115: the pipeline commands
script_commands(build_name) ==
  <<"\n",
    "xst -ifn ", build_name \o ".xst", "\n",
    "ngdbuild -uc ", build_name \o ".ucf", " ", build_name \o ".ngc", " ",
      build_name \o ".ngd", "\n",
    "map -ol high -w -o ", build_name \o "_map.ncd", " ", build_name \o ".ngd",
      " ", build_name \o ".pcf", "\n",
    "par -ol high -w ", build_name \o "_map.ncd", " ", build_name \o ".ncd",
      " ", build_name \o ".pcf", "\n",
    "bitgen -g LCK_cycle:6 -g Binary:Yes -w ", build_name \o ".ncd", " ",
      build_name \o ".bit", "\n">>

\* lines 101-115: build_script_contents; settings is <<>> or <<file>>
build_script_contents(build_name, settings) ==
  script_head
    \o (IF settings # <<>> THEN <<"source ", settings[1], "\n">> ELSE <<>>)
    \o script_commands(build_name)

build_script_file(build_name) == "build_" \o build_name \o ".sh"

(***************************************************************************)
(* The process working directory: an absolute path, as the sequence of its *)
(* components.  A build_dir is [abs, comps].                               *)
(***************************************************************************)
\* os.chdir(path)
chdir(dir, path) == IF path.abs THEN path.comps ELSE dir \o path.comps

\* os.chdir("..")
chdir_up(dir) == IF dir = <<>> THEN <<>> ELSE SubSeq(dir, 1, Len(dir) - 1)

(***************************************************************************)
(* bash running the build script: the script's lines are run in order; a   *)
(* line is recognised by its first token.  "set -e" makes the shell exit   *)
(* at the first command that fails.                                        *)
(***************************************************************************)
Stages == <<"xst", "ngdbuild", "map", "par", "bitgen">>

sh_program(line) ==
  IF line = <<>> THEN "blank"
  ELSE CASE line[1] = "# Autogenerated by mibuild" -> "comment"
         [] line[1] = "set -e" -> "set -e"
         [] line[1] = "source " -> "source"
         [] line[1] = "xst -ifn " -> "xst"
         [] line[1] = "ngdbuild -uc " -> "ngdbuild"
         [] line[1] = "map -ol high -w -o " -> "map"
         [] line[1] = "par -ol high -w " -> "par"
         [] line[1] = "bitgen -g LCK_cycle:6 -g Binary:Yes -w " -> "bitgen"
         [] OTHER -> "unknown"

\* the files a stage writes when it succeeds, from its command line (xst:
\* from the -ofn option of the .xst file it is given)
sh_outputs(files, line) ==
  CASE sh_program(line) = "xst" ->
         IF line[2] \in DOMAIN files
         THEN {files[line[2]][i + 1] :
                 i \in {j \in 1..(Len(files[line[2]]) - 1) : files[line[2]][j] = "-ofn "}}
         ELSE {}
    [] sh_program(line) = "ngdbuild" -> {line[6]}
    [] sh_program(line) = "map" -> {line[2], line[6]}
    [] sh_program(line) = "par" -> {line[4]}
    [] sh_program(line) = "bitgen" -> {line[4]}
    [] OTHER -> {}

(***************************************************************************)
(* Inputs.                                                                 *)
(***************************************************************************)
Home == <<"home", "user">>

BuildDirs ==
  { [abs |-> FALSE, comps |-> <<"build">>],
    [abs |-> FALSE, comps |-> <<"out", "build">>],
    [abs |-> TRUE, comps |-> <<"tmp", "build">>],
    [abs |-> TRUE, comps |-> <<"home", "user", "build">>] }

BuildNames == {"top"}

Hosts ==
  { [platform |-> "linux", P |-> 8], [platform |-> "linux", P |-> 4],
    [platform |-> "win32", P |-> 8], [platform |-> "cygwin", P |-> 8] }

SourceFiles == {<<"cpu.v", "verilog">>, <<"uart.vhd", "vhdl">>}
SourceLists == SeqsUpTo(SourceFiles, MaxSources)

PinNames == <<"A8", "B9", "C10", "D11">>
PinSeqs == {SubSeq(PinNames, 1, k) : k \in 0..MaxPins}

OtherConstraints ==
  { IOStandard("LVCMOS33"), Drive(8), Misc("PULLUP"), PlatformInfo("info") }
OtherLists == SeqsUpTo(OtherConstraints, MaxOthers)

ResNames == {<<"clk_pin", 0, "">>, <<"serial", 1, "tx">>}

SignalConstraints ==
  [sig : {"clk"}, pins : PinSeqs, others : OtherLists, resname : ResNames]

PlatformCommands == {<<>>, <<"CONFIG VCCAUX=3.3;">>, <<"CONFIG VCCAUX=3.3;", "NET x TIG;">>}

\* results of get_verilog: [v_src, named_sc, named_pc]
ElabResults ==
  { [v_src |-> "module top", named_pc |-> <<>>,
     named_sc |-> << [sig |-> "clk", pins |-> <<"A8">>,
                      others |-> <<IOStandard("LVCMOS33")>>,
                      resname |-> <<"clk_pin", 0, "">>] >>],
    [v_src |-> "module top", named_pc |-> <<"CONFIG VCCAUX=3.3;">>,
     named_sc |-> << [sig |-> "clk", pins |-> <<"A8">>,
                      others |-> <<IOStandard("LVCMOS33")>>,
                      resname |-> <<"clk_pin", 0, "">>],
                     [sig |-> "led", pins |-> <<"B9", "C10">>,
                      others |-> <<PlatformInfo("info"), Drive(8)>>,
                      resname |-> <<"user_led", 0, "">>] >>],
    [v_src |-> "module top", named_pc |-> <<>>,
     named_sc |-> << [sig |-> "nc", pins |-> <<>>, others |-> <<>>,
                      resname |-> <<"nc", 0, "">>] >>] }

VersionNames ==
  { <<"1", "3", ".", "1">>, <<"1", "4", ".", "7">>, <<"2", ".", "0">>,
    <<"9", ".", "2">>, <<"1", "0">>,
    <<"n", "o", "t", "a", "v", "e", "r", "s", "i", "o", "n">> }

\* the possible contents of ise_path: sets of [name, isdir], names distinct
IseDirs ==
  { d \in SUBSET [name : VersionNames, isdir : BOOLEAN] :
      /\ Cardinality(d) <= MaxEntries
      /\ \A e, f \in d : e.name = f.name => e = f }

(***************************************************************************)
(* State.                                                                  *)
(***************************************************************************)
VARIABLES
  host,          \* sys.platform and struct.calcsize("P")
  self,          \* the platform object: [device, sources]
  cwd,           \* the process working directory
  pc,            \* where build is
  args,          \* the arguments of the call of build, and cwd at the call
  elab,          \* what get_verilog returned
  fs,            \* the files of the build directory: name -> contents
  exc,           \* the exception build raised, "" for none
  nspawn,        \* subprocess.call calls so far
  scanned,       \* whether os.listdir(ise_path) was called
  vers,          \* <<>> or <<the set of valid versions found (line 103)>>
  tools_version, \* <<>> or <<the version max selected>>
  sh,            \* the shell subprocess: [lines, next, errexit, status, ran]
  fin,           \* input of the function called alone (SpecUcf, SpecVer)
  fout           \* its result

vars == <<host, self, cwd, pc, args, elab, fs, exc, nspawn, scanned, vers,
          tools_version, sh, fin, fout>>

bvars == <<host, self, cwd, pc, args, elab, fs, exc, nspawn, scanned, vers,
           tools_version, sh>>

NoArgs == [build_dir |-> [abs |-> FALSE, comps |-> <<>>], build_name |-> "",
           ise_path |-> "", source |-> FALSE, run |-> FALSE, cwd0 |-> <<>>]
NoElab == [v_src |-> "", named_sc |-> <<>>, named_pc |-> <<>>]
NoShell == [lines |-> <<>>, next |-> 0, errexit |-> FALSE, status |-> 0,
            ran |-> <<>>, running |-> FALSE]
NoFile == [x \in {} |-> <<>>]

InitIdle ==
  /\ cwd = Home
  /\ pc = "idle"
  /\ args = NoArgs
  /\ elab = NoElab
  /\ fs = NoFile
  /\ exc = ""
  /\ nspawn = 0
  /\ scanned = FALSE
  /\ vers = <<>>
  /\ tools_version = <<>>
  /\ sh = NoShell

Init ==
  /\ host \in Hosts
  /\ self \in [device : {"xc6slx9-2-tqg144"}, sources : SourceLists]
  /\ InitIdle
  /\ fin = <<>>
  /\ fout = <<>>

\* tools.write_to_file(name, contents), in the working directory
write_to_file(files, name, contents) ==
  [n \in DOMAIN files \cup {name} |-> IF n = name THEN contents ELSE files[n]]

\* an exception leaves build at once: nothing after the raise runs
raise(e) == /\ exc' = e
            /\ pc' = "raised"

(***************************************************************************)
(* XilinxISEPlatform.build, step by step.                                  *)
(***************************************************************************)
\* build_sources with the generated file first
build_sources_prepend(self_sources, v_file) ==
  <<<<v_file, "verilog">>>> \o self_sources

\* line 160: the source list given to _build_files
build_sources(self_sources, v_file) ==
  self_sources \o <<<<v_file, "verilog">>>>

\* tools_version_of with max(vers, default=""): no error on an empty list
tools_version_of_default(vs) ==
  IF vs = {} THEN [raises |-> FALSE, v |-> <<>>]
  ELSE [raises |-> FALSE, v |-> max(vs)]

\* line 104: max(vers) raises ValueError on an empty list
tools_version_of(vs) ==
  IF vs = {} THEN [raises |-> TRUE, v |-> <<>>]
  ELSE [raises |-> FALSE, v |-> max(vs)]

\* lines 152-155: the call, mkdir_noerror and chdir into build_dir
build_enter(bd, bn, src, rn) ==
  /\ pc = "idle"
  /\ args' = [build_dir |-> bd, build_name |-> bn, ise_path |-> "/opt/Xilinx",
              source |-> src, run |-> rn, cwd0 |-> cwd]
  /\ cwd' = chdir(cwd, bd)
  /\ pc' = "entered"
  /\ UNCHANGED <<host, self, elab, fs, exc, nspawn, scanned, vers, tools_version,
                 sh, fin, fout>>

\* line 157: get_verilog returns, or raises
build_get_verilog ==
  /\ pc = "entered"
  /\ \/ \E r \in ElabResults : elab' = r /\ pc' = "elaborated" /\ exc' = exc
     \/ raise("ElaborationError") /\ elab' = elab
  /\ UNCHANGED <<host, self, cwd, args, fs, nspawn, scanned, vers, tools_version,
                 sh, fin, fout>>

\* lines 158-159: the write of <build_name>.v succeeds, or raises
build_write_v ==
  /\ pc = "elaborated"
  /\ \/ /\ fs' = write_to_file(fs, args.build_name \o ".v", <<elab.v_src>>)
        /\ pc' = "v_written"
        /\ exc' = exc
     \/ raise("IOError") /\ fs' = fs
  /\ UNCHANGED <<host, self, cwd, args, elab, nspawn, scanned, vers, tools_version,
                 sh, fin, fout>>

\* files after the first n writes of ws
RECURSIVE write_all(_, _, _)
write_all(files, ws, n) ==
  IF n = 0 THEN files
  ELSE write_all(write_to_file(files, ws[1][1], ws[1][2]), Tail(ws), n - 1)

\* lines 160-161 and _build_files: _build_ucf raises, or the first n of the
\* three writes succeed and the next one, if any, raises
build_files ==
  /\ pc = "v_written"
  /\ IF _build_ucf_raises(elab.named_sc)
     THEN raise("IndexError") /\ fs' = fs
     ELSE LET sources == build_sources(self.sources, args.build_name \o ".v")
              ws == _build_files(self.device, sources, elab.named_sc,
                                 elab.named_pc, args.build_name)
          IN \E n \in 0..Len(ws) :
               /\ fs' = write_all(fs, ws, n)
               /\ IF n < Len(ws) THEN raise("IOError")
                  ELSE pc' = "files_built" /\ exc' = exc
  /\ UNCHANGED <<host, self, cwd, args, elab, nspawn, scanned, vers, tools_version,
                 sh, fin, fout>>

\* lines 162 and 165: run is false
build_no_run ==
  /\ pc = "files_built"
  /\ ~args.run
  /\ cwd' = chdir_up(cwd)
  /\ pc' = "done"
  /\ UNCHANGED <<host, self, args, elab, fs, exc, nspawn, scanned, vers,
                 tools_version, sh, fin, fout>>

\* lines 116-117, after the contents were built with the settings file
\* (<<>> or <<file>>): the write succeeds, or raises
run_ise_write(settings) ==
  \/ /\ fs' = write_to_file(fs, build_script_file(args.build_name),
                            build_script_contents(args.build_name, settings))
     /\ pc' = "script_written"
     /\ exc' = exc
  \/ raise("IOError") /\ fs' = fs

\* lines 162-163 and _run_ise up to line 117
run_ise_script ==
  /\ pc = "files_built"
  /\ args.run
  /\ IF source_in_effect(host.platform, args.source)
     THEN /\ scanned' = TRUE
          /\ \/ \* os.listdir(ise_path) raises: there is no such directory
                /\ raise("FileNotFoundError")
                /\ UNCHANGED <<fs, vers, tools_version>>
             \/ \E dir \in IseDirs :
                  LET t == tools_version_of(valid_versions(dir))
                  IN /\ vers' = <<valid_versions(dir)>>
                     /\ IF t.raises
                        THEN raise("ValueError") /\ UNCHANGED <<fs, tools_version>>
                        ELSE /\ tools_version' = <<t.v>>
                             /\ run_ise_write(
                                  <<xilinx_settings_file(args.ise_path, t.v, host.P)>>)
     ELSE /\ run_ise_write(<<>>)
          /\ UNCHANGED <<scanned, vers, tools_version>>
  /\ UNCHANGED <<host, self, cwd, args, elab, nspawn, sh, fin, fout>>

\* line 119: subprocess.call starts bash on the script file
run_ise_call ==
  /\ pc = "script_written"
  /\ nspawn' = nspawn + 1
  /\ sh' = [lines |-> SplitLines(fs[build_script_file(args.build_name)]),
            next |-> 1, errexit |-> FALSE, status |-> 0, ran |-> <<>>,
            running |-> TRUE]
  /\ pc' = "waiting"
  /\ UNCHANGED <<host, self, cwd, args, elab, fs, exc, scanned, vers, tools_version,
                 fin, fout>>

\* bash runs the next line of the script
sh_step ==
  /\ pc = "waiting"
  /\ sh.running
  /\ sh.next <= Len(sh.lines)
  /\ LET line == sh.lines[sh.next]
         prog == sh_program(line)
     IN CASE prog \in {"blank", "comment"} ->
               /\ sh' = [sh EXCEPT !.next = @ + 1]
               /\ fs' = fs
          [] prog = "set -e" ->
               /\ sh' = [sh EXCEPT !.next = @ + 1, !.errexit = TRUE, !.status = 0]
               /\ fs' = fs
          [] OTHER ->
               \E st \in {0, 1} :
                 /\ sh' = [sh EXCEPT !.status = st,
                                     !.ran = Append(@, [cmd |-> prog, status |-> st]),
                                     !.next = IF st # 0 /\ sh.errexit THEN @ ELSE @ + 1,
                                     !.running = ~(st # 0 /\ sh.errexit)]
                 /\ fs' = IF st = 0
                          THEN [n \in DOMAIN fs \cup sh_outputs(fs, line) |->
                                  IF n \in sh_outputs(fs, line)
                                  THEN <<"written by " \o prog>> ELSE fs[n]]
                          ELSE fs
  /\ UNCHANGED <<host, self, cwd, pc, args, elab, exc, nspawn, scanned, vers,
                 tools_version, fin, fout>>

\* bash reaches the end of the script and exits with the last status
sh_eof ==
  /\ pc = "waiting"
  /\ sh.running
  /\ sh.next > Len(sh.lines)
  /\ sh' = [sh EXCEPT !.running = FALSE]
  /\ UNCHANGED <<host, self, cwd, pc, args, elab, fs, exc, nspawn, scanned, vers,
                 tools_version, fin, fout>>

\* run_ise_check without the test of line 120
run_ise_check_ignores_status ==
  /\ pc = "waiting"
  /\ ~sh.running
  /\ cwd' = chdir_up(cwd) /\ pc' = "done" /\ exc' = exc
  /\ UNCHANGED <<host, self, args, elab, fs, nspawn, scanned, vers, tools_version,
                 sh, fin, fout>>

\* lines 119-121 and 165: subprocess.call returns r
run_ise_check ==
  /\ pc = "waiting"
  /\ ~sh.running
  /\ IF sh.status # 0
     THEN raise("OSError: Subprocess failed") /\ cwd' = cwd
     ELSE cwd' = chdir_up(cwd) /\ pc' = "done" /\ exc' = exc
  /\ UNCHANGED <<host, self, args, elab, fs, nspawn, scanned, vers, tools_version,
                 sh, fin, fout>>

Next ==
  \/ \E bd \in BuildDirs, bn \in BuildNames, src \in BOOLEAN, rn \in BOOLEAN :
       build_enter(bd, bn, src, rn)
  \/ build_get_verilog
  \/ build_write_v
  \/ build_files
  \/ build_no_run
  \/ run_ise_script
  \/ run_ise_call
  \/ sh_step
  \/ sh_eof
  \/ run_ise_check

Spec == Init /\ [][Next]_vars

(***************************************************************************)
(* _build_ucf on its own: every signal constraint within the bounds.       *)
(***************************************************************************)
InitFn ==
  /\ host = [platform |-> "linux", P |-> 8]
  /\ self = [device |-> "xc6slx9-2-tqg144", sources |-> <<>>]
  /\ InitIdle
  /\ fout = <<>>

InitUcf ==
  /\ InitFn
  /\ fin \in [named_sc : {<<sc>> : sc \in SignalConstraints},
              named_pc : PlatformCommands]

\* the call _build_ucf(named_sc, named_pc): raises, or returns the text
build_ucf_call ==
  /\ fout = <<>>
  /\ fout' = << IF _build_ucf_raises(fin.named_sc)
                THEN [raises |-> TRUE, text |-> <<>>]
                ELSE [raises |-> FALSE,
                      text |-> _build_ucf(fin.named_sc, fin.named_pc)] >>
  /\ UNCHANGED <<bvars, fin>>

NextUcf == build_ucf_call

SpecUcf == InitUcf /\ [][NextUcf]_vars

(***************************************************************************)
(* Lines 103-104 of _run_ise on their own: every content of ise_path       *)
(* within the bounds.                                                      *)
(***************************************************************************)
InitVer ==
  /\ InitFn
  /\ fin \in [dir : IseDirs]

\* vers = [...]; tools_version = max(vers)
select_version_call ==
  /\ fout = <<>>
  /\ fout' = <<tools_version_of(valid_versions(fin.dir))>>
  /\ UNCHANGED <<bvars, fin>>

NextVer == select_version_call

SpecVer == InitVer /\ [][NextVer]_vars

(***************************************************************************)
(* Properties.                                                             *)
(***************************************************************************)
Returned == pc = "done"
Raised == pc = "raised"
VFile == args.build_name \o ".v"
UcfFile == args.build_name \o ".ucf"
PrjFile == args.build_name \o ".prj"
XstFile == args.build_name \o ".xst"
ScriptFile == build_script_file(args.build_name)
StageSet == {Stages[i] : i \in 1..Len(Stages)}

\* C1: on every exit path of build, the working directory is what it was
\* before the call.
C1_CwdRestored == (Returned \/ Raised) => cwd = args.cwd0

\* C2: a build with run=False that returns has written <name>.v, <name>.ucf,
\* <name>.prj, <name>.xst and build_<name>.sh, and spawned no subprocess.
C2_NoRunWritesAll ==
  (Returned /\ ~args.run) =>
    /\ {VFile, UcfFile, PrjFile, XstFile, ScriptFile} \subseteq DOMAIN fs
    /\ nspawn = 0

\* C3 as stated, for the builds that reached _run_ise (run=True and the
\* files of _build_files written): build raises if and only if the subprocess
\* exited with a nonzero status, and the subprocess was invoked exactly once.
C3_RaisesIffNonzeroExit ==
  (args.run /\ (Returned \/ Raised) /\ XstFile \in DOMAIN fs) =>
    /\ nspawn = 1
    /\ Raised <=> (nspawn = 1 /\ sh.status # 0)

\* C3 as amended: the subprocess is invoked at most once; with run=True, a
\* build that invoked it raises (OSError, Subprocess failed) if and only if it
\* exited nonzero, and a build that ended without invoking it raised one of
\* the earlier errors.
C3_Amended ==
  /\ nspawn <= 1
  /\ (args.run /\ (Returned \/ Raised)) =>
       IF nspawn = 1
       THEN /\ Raised <=> sh.status # 0
            /\ Raised => exc = "OSError: Subprocess failed"
       ELSE /\ Raised
            /\ exc \in {"ElaborationError", "IOError", "IndexError",
                        "FileNotFoundError", "ValueError"}

C3_Witness ==
  /\ Raised /\ args.run /\ nspawn = 1 /\ sh.status # 0
  /\ exc = "OSError: Subprocess failed"

\* C5: when ise_path was scanned and holds no directory whose name parses as
\* a decimal, build has raised (ValueError, from max), no build script was
\* written, no subprocess was spawned and no version was selected.
C5_NoVersionIsFatal ==
  vers = <<{}>> =>
    /\ Raised /\ exc = "ValueError"
    /\ ScriptFile \notin DOMAIN fs
    /\ nspawn = 0
    /\ tools_version = <<>>

C5_Witness ==
  /\ vers = <<{}>> /\ Raised /\ args.source /\ args.run
  /\ {UcfFile, PrjFile, XstFile} \subseteq DOMAIN fs

\* the lines of the project file are those of the sources, in order, then the
\* generated verilog file
C8_PrjState ==
  PrjFile \in DOMAIN fs =>
    LET lines == SplitLines(fs[PrjFile])
        n == Len(self.sources)
    IN /\ Len(lines) = n + 1
       /\ \A i \in 1..n :
            lines[i] = <<self.sources[i][2], " work ", self.sources[i][1]>>
       /\ lines[n + 1] = <<"verilog", " work ", VFile>>

\* C8: the emitted <name>.prj has one line "<language> work <path>" per
\* source entry, in the order of the source list, the last one being the
\* generated <name>.v tagged verilog; and no step of the build changes the
\* platform's own source list.
C8_ProjectFile == []C8_PrjState /\ [][self'.sources = self.sources]_vars

C8_Witness ==
  /\ Returned /\ PrjFile \in DOMAIN fs
  /\ Len(self.sources) = 2 /\ self.sources[1] # self.sources[2]

IsStage(r) == r.cmd \in StageSet

\* what the shell has run so far
C9_ShellState ==
  LET stages == SelectSeq(sh.ran, IsStage) IN
  /\ \A i \in 1..Len(stages) : stages[i].cmd = Stages[i]
  /\ \A i \in 1..(Len(sh.ran) - 1) : sh.ran[i].status = 0
  /\ (nspawn = 1 /\ ~sh.running) =>
       IF \E i \in 1..Len(sh.ran) : sh.ran[i].status # 0
       THEN sh.status # 0
       ELSE sh.status = 0 /\ Len(stages) = Len(Stages)

\* C9: the script runs xst, ngdbuild, map, par, bitgen in that order; a
\* command runs only after every earlier one (the source line included)
\* exited zero; a failure ends the script with a nonzero status; and no step
\* deletes or changes a file that was written.
C9_Pipeline ==
  /\ []C9_ShellState
  /\ [][\A n \in DOMAIN fs : n \in DOMAIN fs' /\ fs'[n] = fs[n]]_vars

C9_Witness ==
  /\ Raised /\ nspawn = 1 /\ ~sh.running
  /\ Len(sh.ran) = 4 /\ sh.ran[4].cmd = "map" /\ sh.ran[4].status # 0
  /\ {"top.ngc", "top.ngd", UcfFile, ScriptFile} \subseteq DOMAIN fs
  /\ "top.pcf" \notin DOMAIN fs

\* C10: a written build script has a source line if and only if source was
\* requested and the platform is neither win32 nor cygwin, and the line comes
\* before every pipeline command; when sourcing is not in effect, ise_path is
\* not scanned and build raises no toolchain-version error.
C10_SourceLine ==
  LET eff == args.source /\ host.platform \notin {"win32", "cygwin"} IN
  /\ ScriptFile \in DOMAIN fs =>
       LET lines == SplitLines(fs[ScriptFile])
           src == {i \in 1..Len(lines) : sh_program(lines[i]) = "source"}
           cmds == {i \in 1..Len(lines) : sh_program(lines[i]) \in StageSet}
       IN /\ src # {} <=> eff
          /\ Cardinality(src) <= 1
          /\ Cardinality(cmds) = Len(Stages)
          /\ \A i \in src, j \in cmds : i < j
  /\ (pc # "idle" /\ ~eff) =>
       /\ ~scanned
       /\ exc \notin {"ValueError", "FileNotFoundError"}

C10_Witness ==
  /\ ScriptFile \in DOMAIN fs /\ args.source /\ host.platform = "cygwin"
  /\ Returned

(***************************************************************************)
(* Properties of _build_ucf (SpecUcf).                                     *)
(***************************************************************************)
TheSC == fin.named_sc[1]
IsNet(line) == line # <<>> /\ line[1] = "NET \""
NetLines == SelectSeq(SplitLines(fout[1].text), IsNet)

\* the fragments of a NET line: its tokens 4, 6, ... before "; # "
LineFrags(line) == [j \in 1..((Len(line) - 4) \div 2) |-> line[2 * j + 2]]

\* a NET line is NET "<signame>" f1 | f2 | ... ; # <resource>
WellFormed(line) ==
  /\ Len(line) >= 6 /\ Len(line) % 2 = 0
  /\ line[1] = "NET \"" /\ line[3] = "\" "
  /\ line[Len(line) - 1] = "; # "
  /\ \A j \in 1..((Len(line) - 4) \div 2 - 1) : line[2 * j + 3] = " | "

Recognised(c) == c.kind \in {"Pins", "IOStandard", "Drive", "Misc"}

\* the fragment the constraint file format has for a constraint
FragmentOf(c) ==
  CASE c.kind = "IOStandard" -> "IOSTANDARD=" \o c.name
    [] c.kind = "Drive" -> "DRIVE=" \o ToString(c.strength)
    [] c.kind = "Misc" -> c.misc

LocFragments == {"LOC=" \o PinNames[i] : i \in 1..Len(PinNames)}

SigName(i, k) ==
  IF k > 1 THEN TheSC.sig \o "(" \o ToString(i - 1) \o ")" ELSE TheSC.sig

\* C6 as stated, for the signal constraints that have a pin: k lines for k
\* pins, suffix (i) iff k > 1, and on each line one LOC fragment then one
\* fragment per entry of the constraint list.
C6_OneFragmentPerEntry ==
  (fout # <<>> /\ Len(TheSC.pins) >= 1) =>
    LET k == Len(TheSC.pins) IN
    /\ ~fout[1].raises
    /\ Len(NetLines) = k
    /\ \A i \in 1..k :
         /\ WellFormed(NetLines[i])
         /\ NetLines[i][2] = SigName(i, k)
         /\ LineFrags(NetLines[i])[1] = "LOC=" \o TheSC.pins[i]
         /\ Len(LineFrags(NetLines[i])) = 1 + Len(TheSC.others)

\* C6 as amended: with k >= 1 pins, k lines, suffix (i) iff k > 1, and on each
\* line one LOC fragment for that bit's pin, then one fragment per entry of
\* the constraint list that is an IOStandard, Drive or Misc, in the list's
\* order, the same for every bit; with no pin, _build_ucf raises.
C6_Amended ==
  fout # <<>> =>
    LET k == Len(TheSC.pins)
        known == SelectSeq(TheSC.others, Recognised)
    IN IF k = 0 THEN fout[1].raises
       ELSE /\ ~fout[1].raises
            /\ Len(NetLines) = k
            /\ \A i \in 1..k :
                 LET frags == LineFrags(NetLines[i]) IN
                 /\ WellFormed(NetLines[i])
                 /\ NetLines[i][2] = SigName(i, k)
                 /\ frags[1] = "LOC=" \o TheSC.pins[i]
                 /\ Cardinality({j \in 1..Len(frags) : frags[j] \in LocFragments}) = 1
                 /\ Len(frags) = 1 + Len(known)
                 /\ \A j \in 1..Len(known) : frags[j + 1] = FragmentOf(known[j])

C6_Witness ==
  /\ fout # <<>> /\ ~fout[1].raises
  /\ TheSC.pins = <<"A8", "B9">>
  /\ TheSC.others = <<PlatformInfo("info"), Drive(8)>>
  /\ Len(NetLines) = 2

\* C7: a constraint that is none of the four variants does not make the
\* formatter raise, and each line is the line the constraint list without
\* that entry gives: no fragment and no separator stands for it.
C7_UnknownSkipped ==
  (fout # <<>> /\ Len(TheSC.pins) >= 1) =>
    LET known == SelectSeq(TheSC.others, Recognised) IN
    /\ ~fout[1].raises
    /\ fout[1].text
         = _build_ucf(<<[TheSC EXCEPT !.others = known]>>, fin.named_pc)
    /\ \A i \in 1..Len(NetLines) :
         /\ WellFormed(NetLines[i])
         /\ Len(LineFrags(NetLines[i])) = 1 + Len(known)
         /\ \A j \in 1..Len(NetLines[i]) : NetLines[i][j] # ""

C7_Witness ==
  /\ fout # <<>> /\ ~fout[1].raises
  /\ TheSC.pins = <<"A8">>
  /\ TheSC.others = <<PlatformInfo("info"), IOStandard("LVCMOS33")>>
  /\ fout[1].text = <<"NET \"", "clk", "\" ", "LOC=A8", " | ",
                      "IOSTANDARD=LVCMOS33", "; # ", "clk_pin:0", "\n">>

(***************************************************************************)
(* Properties of the version selection (SpecVer).                          *)
(***************************************************************************)
\* the digits of a parsed name as a number, and how many follow the "."
RECURSIVE IntOf(_, _)
IntOf(v, acc) ==
  IF v = <<>> THEN acc
  ELSE IF Head(v) = "." THEN IntOf(Tail(v), acc)
  ELSE IntOf(Tail(v), 10 * acc + DigitVal(Head(v)))

FracLen(v) ==
  IF \E i \in 1..Len(v) : v[i] = "."
  THEN Len(v) - (CHOOSE i \in 1..Len(v) : v[i] = ".")
  ELSE 0

RECURSIVE Pow10(_)
Pow10(n) == IF n = 0 THEN 1 ELSE 10 * Pow10(n - 1)

\* a <= b as decimal numbers
NumLeq(a, b) ==
  IntOf(a, 0) * Pow10(FracLen(b)) <= IntOf(b, 0) * Pow10(FracLen(a))

\* C4: the version selected is the numerically greatest of the names of
\* ise_path that parse as a decimal and are directories.
C4_NumericMax ==
  (fout # <<>> /\ ~fout[1].raises) =>
    /\ fout[1].v \in valid_versions(fin.dir)
    /\ \A w \in valid_versions(fin.dir) : NumLeq(w, fout[1].v)

====
